---- MODULE Spec2Model ----
(***************************************************************************)
(* Model of cp2k's accelerator stream/event layer:                         *)
(*   - src/acc/opencl/acc_opencl_event.c   (the OpenCL event operations)   *)
(*   - src/acc/mic/libxstream/include/libxstream_macros.h                  *)
(*                                          (the offload region macros)    *)
(* The two halves share no state.  SpecEvent runs the event operations    *)
(* under callers that keep to the interface, SpecLifecycle under any       *)
(* caller, SpecRace runs two threads inside event calls, SpecOffload runs  *)
(* the offload regions.                                                    *)
(***************************************************************************)
EXTENDS Integers, Sequences, FiniteSets, TLC

(***************************************************************************)
(* Bounds of the model.                                                    *)
(***************************************************************************)
\* commands (operations, markers, waits) enqueued over all streams
MaxCmds == 4

(***************************************************************************)
(* OpenCL constants used by acc_opencl_event.c.                            *)
(***************************************************************************)
CL_SUCCESS == 0
CL_COMPLETE == 0
CL_SUBMITTED == 2
CL_QUEUED == 3
\* any OpenCL error code (all are negative); the code only tests for # 0
CL_FAILURE == -1

Events == {"E"}
Streams == {"S1", "S2"}
NULL == 0
\* what malloc() returns: the address of the new block, never NULL here
MallocResults == {1}

VARIABLES
    evAlloc,     \* evAlloc[e]: the host cl_event cell of e is malloc'ed
    evFreed,     \* evFreed[e]: the cell has been freed by acc_event_destroy
    evHandle,    \* evHandle[e]: the cl_event stored in that cell (0: none)
    clStatus,    \* clStatus[h]: execution status of device event h = 1..Len
    clReleased,  \* device events released by clReleaseEvent
    queue,       \* queue[s]: the commands of stream s not yet executed
    ops,         \* ops[k]: stream and state of the k-th enqueued operation
    ret,         \* what the event call made in the last step returned
                 \* (NoRet when the last step was not an event call)
    recCount,    \* history: successful records of e since its creation
    recBefore,   \* history: operations enqueued before e's latest record
    waited,      \* history: waited[s]: events s was made to wait on
    nCmds,       \* history: number of commands enqueued so far
    failedOn,    \* history: failedOn[e]: a call on the live event e has failed
    opWaits      \* history: opWaits[k]: waited[s] when operation k was enqueued

evVars == <<evAlloc, evFreed, evHandle, clStatus, clReleased, queue, ops, ret,
            recCount, recBefore, waited, nCmds, failedOn, opWaits>>

VARIABLES
    LIBXSTREAM_ASYNC, \* the configured strategy: 0, 1 or 2 (fixed at start)
    signal,      \* signal[s]: the signal counter of stream s
    pending,     \* pending[s]: the pending marker of stream s
    regs,        \* regs[i]: the i-th offload issued to the device
    host,        \* the dispatching host thread: position and region locals
    nBegun,      \* history: nBegun[s]: regions dispatched on s so far
    confirmed    \* history: offloads a blocking dispatch has waited for

offVars == <<LIBXSTREAM_ASYNC, signal, pending, regs, host, nBegun, confirmed>>

VARIABLES
    cl_error,    \* the global error code every backend call is assigned to
    thr          \* thr[t]: position of host thread t inside an event call

raceVars == <<cl_error, thr>>

vars == <<evVars, offVars, raceVars>>

\* failed: some backend call of the operation failed; live: the cell was
\* allocated (not freed) when the operation was called; valid: the cl_event
\* passed to the backend was a valid one
NoRet == [op |-> "none", ev |-> "E", status |-> 0,
          set |-> FALSE, occurred |-> FALSE, complete |-> FALSE,
          failed |-> FALSE, live |-> TRUE, valid |-> TRUE]

\* acc_opencl_error_check(error, line): non-zero iff the call failed
acc_opencl_error_check(err) == err # CL_SUCCESS

\* the error code a backend call returns
Outcome(ok) == IF ok THEN CL_SUCCESS ELSE CL_FAILURE

OpIds == 1..Len(ops)
Handles == 1..Len(clStatus)
ValidHandle(h) == h \in Handles /\ h \notin clReleased

\* the caller holds a pointer to e's cell: allocated, or freed by a destroy.
\* Reading a freed cell is undefined; it yields what was stored there last.
HasCell(e) == evAlloc[e] \/ evFreed[e]

\* the backend can accept h: h is a cl_event it has created.  What it does
\* with a released one is undefined: it may accept or reject it.
Accepted(h) == h \in Handles

\* what an event operation on e returns, given whether a backend call failed
Ret(op, e, status, failed) ==
    [NoRet EXCEPT !.op = op, !.ev = e, !.status = status, !.failed = failed,
                  !.live = evAlloc[e], !.valid = ValidHandle(evHandle[e])]

\* the failure history after a call on e that returned status
NoteStatus(e, status) ==
    IF status # 0 /\ evAlloc[e] THEN [failedOn EXCEPT ![e] = TRUE]
    ELSE failedOn
OpsOn(s) == {k \in OpIds : ops[k].stream = s}
Done(k) == ops[k].state = "done"

InitEvent ==
    /\ evAlloc = [e \in Events |-> FALSE]
    /\ evFreed = [e \in Events |-> FALSE]
    /\ evHandle = [e \in Events |-> NULL]
    /\ clStatus = <<>>
    /\ clReleased = {}
    /\ queue = [s \in Streams |-> <<>>]
    /\ ops = <<>>
    /\ ret = NoRet
    /\ recCount = [e \in Events |-> 0]
    /\ recBefore = [e \in Events |-> {}]
    /\ waited = [s \in Streams |-> {}]
    /\ nCmds = 0
    /\ failedOn = [e \in Events |-> FALSE]
    /\ opWaits = <<>>

(***************************************************************************)
(* acc_event_create: malloc the cell, clCreateUserEvent, and then the      *)
(* unchecked clSetUserEventStatus to CL_COMPLETE of line 47.               *)
(* okCreate, okSet: whether the two backend calls succeed.                 *)
(***************************************************************************)
acc_event_create(e, okCreate, okSet) ==
    /\ ~evAlloc[e] /\ ~evFreed[e]
    /\ evAlloc' = [evAlloc EXCEPT ![e] = TRUE]
    /\ recCount' = [recCount EXCEPT ![e] = 0]
    /\ recBefore' = [recBefore EXCEPT ![e] = {}]
    /\ IF acc_opencl_error_check(Outcome(okCreate))
         THEN /\ evHandle' = [evHandle EXCEPT ![e] = NULL]
              /\ ret' = [Ret("create", e, -1, TRUE) EXCEPT
                            !.live = TRUE, !.valid = TRUE]
              /\ failedOn' = [failedOn EXCEPT ![e] = TRUE]
              /\ UNCHANGED clStatus
         ELSE /\ evHandle' = [evHandle EXCEPT ![e] = Len(clStatus) + 1]
              /\ clStatus' = Append(clStatus,
                                    IF okSet THEN CL_COMPLETE ELSE CL_SUBMITTED)
              /\ ret' = [Ret("create", e, 0, ~okSet) EXCEPT
                            !.live = TRUE, !.valid = TRUE]
              /\ UNCHANGED failedOn
    /\ UNCHANGED <<evFreed, clReleased, queue, ops, waited, nCmds, opWaits,
                   offVars, raceVars>>

(***************************************************************************)
(* acc_event_destroy: clReleaseEvent of the stored event, then free.       *)
(***************************************************************************)
acc_event_destroy(e, ok) ==
    /\ HasCell(e)
    /\ ok => Accepted(evHandle[e])
    /\ IF acc_opencl_error_check(Outcome(ok))
         THEN /\ ret' = Ret("destroy", e, -1, TRUE)
              /\ failedOn' = NoteStatus(e, -1)
              /\ UNCHANGED <<evAlloc, evFreed, clReleased>>
         ELSE /\ clReleased' = clReleased \cup {evHandle[e]}
              /\ evAlloc' = [evAlloc EXCEPT ![e] = FALSE]
              /\ evFreed' = [evFreed EXCEPT ![e] = TRUE]
              /\ ret' = Ret("destroy", e, 0, FALSE)
              /\ UNCHANGED failedOn
    /\ UNCHANGED <<evHandle, clStatus, queue, ops, recCount, recBefore,
                   waited, nCmds, opWaits, offVars, raceVars>>

(***************************************************************************)
(* acc_event_record: clEnqueueMarker(queue, clevent) puts a               *)
(* marker at the tail of the queue and stores the marker's new event in    *)
(* the cell clevent, over the handle that was there.                       *)
(***************************************************************************)
\* mutant: clEnqueueMarker is given no place to store the marker's event
acc_event_record_NoEvent(e, s, ok) ==
    /\ HasCell(e)
    /\ nCmds < MaxCmds
    /\ IF acc_opencl_error_check(Outcome(ok))
         THEN /\ ret' = Ret("record", e, -1, TRUE)
              /\ failedOn' = NoteStatus(e, -1)
              /\ UNCHANGED <<evHandle, clStatus, queue, recCount,
                             recBefore, nCmds>>
         ELSE /\ clStatus' = Append(clStatus, CL_QUEUED)
              /\ UNCHANGED evHandle
              /\ queue' = [queue EXCEPT ![s] =
                    Append(@, [kind |-> "marker", arg |-> Len(clStatus) + 1])]
              /\ recCount' = [recCount EXCEPT ![e] = @ + 1]
              /\ recBefore' = [recBefore EXCEPT ![e] = OpsOn(s)]
              /\ nCmds' = nCmds + 1
              /\ ret' = Ret("record", e, 0, FALSE)
              /\ UNCHANGED failedOn
    /\ UNCHANGED <<evAlloc, evFreed, clReleased, ops, waited, opWaits,
                   offVars, raceVars>>

acc_event_record(e, s, ok) ==
    /\ HasCell(e)
    /\ nCmds < MaxCmds
    /\ IF acc_opencl_error_check(Outcome(ok))
         THEN /\ ret' = Ret("record", e, -1, TRUE)
              /\ failedOn' = NoteStatus(e, -1)
              /\ UNCHANGED <<evHandle, clStatus, queue, recCount,
                             recBefore, nCmds>>
         ELSE /\ clStatus' = Append(clStatus, CL_QUEUED)
              /\ evHandle' = [evHandle EXCEPT ![e] = Len(clStatus) + 1]
              /\ queue' = [queue EXCEPT ![s] =
                    Append(@, [kind |-> "marker", arg |-> Len(clStatus) + 1])]
              /\ recCount' = [recCount EXCEPT ![e] = @ + 1]
              /\ recBefore' = [recBefore EXCEPT ![e] = OpsOn(s)]
              /\ nCmds' = nCmds + 1
              /\ ret' = Ret("record", e, 0, FALSE)
              /\ UNCHANGED failedOn
    /\ UNCHANGED <<evAlloc, evFreed, clReleased, ops, waited, opWaits,
                   offVars, raceVars>>

(***************************************************************************)
(* acc_event_query: two clGetEventInfo calls around a malloc of the value  *)
(* buffer, then 'param_value == CL_COMPLETE', which compares the buffer's  *)
(* address (not the status stored in it) with 0.                           *)
(* ok1, ok2: the two backend calls; pv: what malloc returned.              *)
(***************************************************************************)
HasOccured(param_value) == IF param_value = CL_COMPLETE THEN 1 ELSE 0

acc_event_query(e, ok1, pv, ok2) ==
    /\ HasCell(e)
    /\ ok1 => Accepted(evHandle[e])
    /\ ok2 => Accepted(evHandle[e])
    /\ LET status == IF acc_opencl_error_check(Outcome(ok1)) THEN -1
                     ELSE IF acc_opencl_error_check(Outcome(ok2)) THEN -1
                     ELSE 0
       IN  /\ ret' = IF status # 0
                       THEN Ret("query", e, status, TRUE)
                       ELSE [Ret("query", e, 0, FALSE) EXCEPT
                               !.set = TRUE,
                               !.occurred = (HasOccured(pv) = 1),
                               !.complete =
                                   (clStatus[evHandle[e]] = CL_COMPLETE)]
           /\ failedOn' = NoteStatus(e, status)
    /\ UNCHANGED <<evAlloc, evFreed, evHandle, clStatus, clReleased, queue,
                   ops, recCount, recBefore, waited, nCmds, opWaits, offVars, raceVars>>

(***************************************************************************)
(* acc_stream_wait_event: clEnqueueWaitForEvents(queue, 1, clevent) puts a *)
(* wait for the event now stored in the cell at the tail of the queue.     *)
(***************************************************************************)
acc_stream_wait_event(s, e, ok) ==
    /\ HasCell(e)
    /\ nCmds < MaxCmds
    /\ ok => Accepted(evHandle[e])
    /\ IF acc_opencl_error_check(Outcome(ok))
         THEN /\ ret' = Ret("wait_event", e, -1, TRUE)
              /\ failedOn' = NoteStatus(e, -1)
              /\ UNCHANGED <<queue, waited, nCmds>>
         ELSE /\ queue' = [queue EXCEPT ![s] =
                    Append(@, [kind |-> "wait", arg |-> evHandle[e]])]
              /\ waited' = [waited EXCEPT ![s] = @ \cup {e}]
              /\ nCmds' = nCmds + 1
              /\ ret' = Ret("wait_event", e, 0, FALSE)
              /\ UNCHANGED failedOn
    /\ UNCHANGED <<evAlloc, evFreed, evHandle, clStatus, clReleased, ops,
                   recCount, recBefore, opWaits, offVars, raceVars>>

(***************************************************************************)
(* acc_event_synchronize: clWaitForEvents(1, clevent) returns once the     *)
(* event stored in the cell is CL_COMPLETE, or at once with an error.      *)
(***************************************************************************)
acc_event_synchronize(e, ok) ==
    /\ HasCell(e)
    /\ ok => /\ Accepted(evHandle[e])
             /\ clStatus[evHandle[e]] = CL_COMPLETE
    /\ LET status == IF acc_opencl_error_check(Outcome(ok)) THEN -1 ELSE 0
       IN  /\ ret' = Ret("synchronize", e, status, ~ok)
           /\ failedOn' = NoteStatus(e, status)
    /\ UNCHANGED <<evAlloc, evFreed, evHandle, clStatus, clReleased, queue,
                   ops, recCount, recBefore, waited, nCmds, opWaits, offVars, raceVars>>

(***************************************************************************)
(* The rest of the accelerator layer enqueues an operation (a kernel or a  *)
(* copy) on a stream's queue.                                              *)
(***************************************************************************)
EnqueueOp(s) ==
    /\ nCmds < MaxCmds
    /\ ops' = Append(ops, [stream |-> s, state |-> "queued"])
    /\ opWaits' = Append(opWaits, waited[s])
    /\ nCmds' = nCmds + 1
    /\ queue' = [queue EXCEPT ![s] =
                    Append(@, [kind |-> "op", arg |-> Len(ops) + 1])]
    /\ ret' = NoRet
    /\ UNCHANGED <<evAlloc, evFreed, evHandle, clStatus, clReleased,
                   recCount, recBefore, waited, failedOn, offVars, raceVars>>

(***************************************************************************)
(* The device executes the head of an in-order queue.                      *)
(***************************************************************************)
DeviceStartOp(s) ==
    /\ queue[s] # <<>>
    /\ Head(queue[s]).kind = "op"
    /\ ops[Head(queue[s]).arg].state = "queued"
    /\ ops' = [ops EXCEPT ![Head(queue[s]).arg].state = "running"]
    /\ ret' = NoRet
    /\ UNCHANGED <<evAlloc, evFreed, evHandle, clStatus, clReleased, queue,
                   recCount, recBefore, waited, nCmds, failedOn, opWaits, offVars, raceVars>>

DeviceFinishOp(s) ==
    /\ queue[s] # <<>>
    /\ Head(queue[s]).kind = "op"
    /\ ops[Head(queue[s]).arg].state = "running"
    /\ ops' = [ops EXCEPT ![Head(queue[s]).arg].state = "done"]
    /\ queue' = [queue EXCEPT ![s] = Tail(@)]
    /\ ret' = NoRet
    /\ UNCHANGED <<evAlloc, evFreed, evHandle, clStatus, clReleased,
                   recCount, recBefore, waited, nCmds, failedOn, opWaits, offVars, raceVars>>

\* the marker of clEnqueueMarker: its event completes when the marker is
\* reached, i.e. when every command enqueued before it has completed
DeviceMarker(s) ==
    /\ queue[s] # <<>>
    /\ Head(queue[s]).kind = "marker"
    /\ clStatus' = [clStatus EXCEPT ![Head(queue[s]).arg] = CL_COMPLETE]
    /\ queue' = [queue EXCEPT ![s] = Tail(@)]
    /\ ret' = NoRet
    /\ UNCHANGED <<evAlloc, evFreed, evHandle, clReleased, ops, recCount,
                   recBefore, waited, nCmds, failedOn, opWaits, offVars, raceVars>>

\* the wait of clEnqueueWaitForEvents: later commands start only once the
\* event waited on is CL_COMPLETE
DeviceWait(s) ==
    /\ queue[s] # <<>>
    /\ Head(queue[s]).kind = "wait"
    /\ clStatus[Head(queue[s]).arg] = CL_COMPLETE
    /\ queue' = [queue EXCEPT ![s] = Tail(@)]
    /\ ret' = NoRet
    /\ UNCHANGED <<evAlloc, evFreed, evHandle, clStatus, clReleased, ops,
                   recCount, recBefore, waited, nCmds, failedOn, opWaits, offVars, raceVars>>

\* the events whose cell is allocated, and those a caller holds a pointer to
LiveEvents == {e \in Events : evAlloc[e]}
HeldEvents == {e \in Events : HasCell(e)}

\* callers that keep to the interface: no call on a destroyed event
EventStep ==
    \/ \E e \in Events, okCreate, okSet \in BOOLEAN :
          acc_event_create(e, okCreate, okSet)
    \/ \E e \in LiveEvents, ok \in BOOLEAN : acc_event_destroy(e, ok)
    \/ \E e \in LiveEvents, s \in Streams, ok \in BOOLEAN :
          acc_event_record(e, s, ok)
    \/ \E e \in LiveEvents, ok1, ok2 \in BOOLEAN, pv \in MallocResults :
          acc_event_query(e, ok1, pv, ok2)
    \/ \E e \in LiveEvents, s \in Streams, ok \in BOOLEAN :
          acc_stream_wait_event(s, e, ok)
    \/ \E e \in LiveEvents, ok \in BOOLEAN : acc_event_synchronize(e, ok)
    \/ \E s \in Streams : EnqueueOp(s)
    \/ \E s \in Streams : DeviceStartOp(s)
    \/ \E s \in Streams : DeviceFinishOp(s)
    \/ \E s \in Streams : DeviceMarker(s)
    \/ \E s \in Streams : DeviceWait(s)

\* any caller, also one that goes on using a destroyed event; the streams
\* carry markers and waits only
LifecycleStep ==
    \/ \E e \in Events, okCreate, okSet \in BOOLEAN :
          acc_event_create(e, okCreate, okSet)
    \/ \E e \in HeldEvents, ok \in BOOLEAN : acc_event_destroy(e, ok)
    \/ \E e \in HeldEvents, s \in Streams, ok \in BOOLEAN :
          acc_event_record(e, s, ok)
    \/ \E e \in HeldEvents, ok1, ok2 \in BOOLEAN, pv \in MallocResults :
          acc_event_query(e, ok1, pv, ok2)
    \/ \E e \in HeldEvents, s \in Streams, ok \in BOOLEAN :
          acc_stream_wait_event(s, e, ok)
    \/ \E e \in HeldEvents, ok \in BOOLEAN : acc_event_synchronize(e, ok)
    \/ \E s \in Streams : DeviceMarker(s)
    \/ \E s \in Streams : DeviceWait(s)

(***************************************************************************)
(* Two host threads inside acc_event_query and acc_event_synchronize, step *)
(* by step: a backend call assigns its result to the global cl_error, the  *)
(* following acc_opencl_error_check reads cl_error.  Nothing orders the    *)
(* accesses of one thread with those of the other.  Each thread works on a *)
(* live event of its own; ok: whether the backend call succeeds.           *)
(***************************************************************************)
\* event calls made by each thread
MaxCalls == 2

Threads == {"T1", "T2"}

\* failed: a backend call of the current call has failed
IdleThread == [pc |-> "idle", op |-> "none", failed |-> FALSE, status |-> 0,
               calls |-> 0]

InitRace ==
    /\ cl_error = CL_SUCCESS
    /\ thr = [t \in Threads |-> IdleThread]

\* lines 133 and 205: the first backend call of the operation
ThreadCall(t, op, ok) ==
    /\ thr[t].pc \in {"idle", "returned"}
    /\ thr[t].calls < MaxCalls
    /\ cl_error' = Outcome(ok)
    /\ thr' = [thr EXCEPT ![t] = [pc |-> "check1", op |-> op, failed |-> ~ok,
                                  status |-> 0, calls |-> @.calls + 1]]
    /\ UNCHANGED <<evVars, offVars>>

\* lines 135-136 and 206-207: the check after the first call
ThreadCheck(t) ==
    /\ thr[t].pc = "check1"
    /\ thr' = [thr EXCEPT ![t] =
                 IF acc_opencl_error_check(cl_error)
                   THEN [@ EXCEPT !.pc = "returned", !.status = -1]
                   ELSE IF @.op = "query"
                   THEN [@ EXCEPT !.pc = "call2"]
                   ELSE [@ EXCEPT !.pc = "returned", !.status = 0]]
    /\ UNCHANGED <<cl_error, evVars, offVars>>

\* line 138: the second clGetEventInfo of acc_event_query
ThreadCall2(t, ok) ==
    /\ thr[t].pc = "call2"
    /\ cl_error' = Outcome(ok)
    /\ thr' = [thr EXCEPT ![t].pc = "check2",
                          ![t].failed = @ \/ ~ok]
    /\ UNCHANGED <<evVars, offVars>>

\* lines 140-141 and 157: the check after the second call
ThreadCheck2(t) ==
    /\ thr[t].pc = "check2"
    /\ thr' = [thr EXCEPT ![t].pc = "returned",
                          ![t].status =
                              IF acc_opencl_error_check(cl_error)
                                THEN -1 ELSE 0]
    /\ UNCHANGED <<cl_error, evVars, offVars>>

RaceStep ==
    \/ \E t \in Threads, op \in {"query", "synchronize"}, ok \in BOOLEAN :
          ThreadCall(t, op, ok)
    \/ \E t \in Threads : ThreadCheck(t)
    \/ \E t \in Threads, ok \in BOOLEAN : ThreadCall2(t, ok)
    \/ \E t \in Threads : ThreadCheck2(t)

(***************************************************************************)
(*                      libxstream_macros.h                                *)
(***************************************************************************)
\* lines 124-126: the error codes
LIBXSTREAM_ERROR_NONE == 0
LIBXSTREAM_ERROR_RUNTIME == -1
LIBXSTREAM_ERROR_CONDITION == -2

\* offloads issued over all streams
MaxRegions == 3

OStreams == {"X1"}
NullStream == "null"
Clauses == {"TARGET", "TARGET_SIGNAL", "TARGET_WAIT"}

\* line 157: the strategy the preprocessor selects from LIBXSTREAM_ASYNC:
\* 0 synchronous, 1 asynchronous offload, 2 compiler streams
Strategy == (2 * LIBXSTREAM_ASYNC + 1) \div 2

(***************************************************************************)
(* libxstream_stream, as the macros use it.                                *)
(***************************************************************************)
\* stream_->signal(): advances the counter by one and returns the next
\* unused signal value
stream_signal(s) == signal[s] + 1

\* stream_->pending()
stream_pending(s) == pending[s]

\* stream_->device(): the coprocessor the stream is bound to (X1: device 1);
\* the default device is val<int,0>()
stream_device(s) == IF s = "X1" THEN 1 ELSE 2
DefaultDevice == 0

\* stream_->handle(): the native stream of s
stream_handle(s) == IF s = "X1" THEN 1 ELSE 2

(***************************************************************************)
(* LIBXSTREAM_OFFLOAD_DECL: the locals of a region, resolved from stream_  *)
(* under the configured strategy; 'counter' is the stream's signal counter *)
(* after the declarations have run.                                        *)
(***************************************************************************)
\* mutant: signal_ is read from the pending marker, the counter is not
\* advanced
LIBXSTREAM_OFFLOAD_DECL_NoAdvance(s) ==
    [device_ |-> IF s # NullStream THEN stream_device(s) ELSE DefaultDevice,
     signal_ |-> IF Strategy # 0 /\ s # NullStream
                   THEN stream_pending(s) ELSE 0,
     signal_consumed_ |-> IF Strategy # 0 /\ s # NullStream
                            THEN stream_pending(s) ELSE 0,
     pending_ |-> IF Strategy # 0 /\ s # NullStream
                    THEN stream_pending(s) ELSE 0,
     handle_ |-> IF Strategy = 2 /\ s # NullStream
                   THEN stream_handle(s) ELSE 0,
     counter |-> signal]

\* mutant: the declarations of the asynchronous strategy, whatever is
\* configured
LIBXSTREAM_OFFLOAD_DECL_Async(s) ==
    [device_ |-> IF s # NullStream THEN stream_device(s) ELSE DefaultDevice,
     signal_ |-> IF s # NullStream THEN stream_signal(s) ELSE 0,
     signal_consumed_ |-> IF s # NullStream THEN stream_signal(s) ELSE 0,
     pending_ |-> IF s # NullStream THEN stream_pending(s) ELSE 0,
     handle_ |-> 0,
     counter |-> IF s # NullStream
                   THEN [signal EXCEPT ![s] = stream_signal(s)] ELSE signal]

\* mutant: stream_ is used without the null test
LIBXSTREAM_OFFLOAD_DECL_NoNullTest(s) ==
    LET s1 == IF s = NullStream THEN "X1" ELSE s
    IN  [device_ |-> stream_device(s1),
         signal_ |-> IF Strategy # 0 THEN stream_signal(s1) ELSE 0,
         signal_consumed_ |-> IF Strategy # 0 THEN stream_signal(s1) ELSE 0,
         pending_ |-> IF Strategy # 0 THEN stream_pending(s1) ELSE 0,
         handle_ |-> IF Strategy = 2 THEN stream_handle(s1) ELSE 0,
         counter |-> IF Strategy # 0
                       THEN [signal EXCEPT ![s1] = stream_signal(s1)]
                       ELSE signal]

LIBXSTREAM_OFFLOAD_DECL(s) ==
    [device_ |-> IF s # NullStream THEN stream_device(s) ELSE DefaultDevice,
     signal_ |-> IF Strategy # 0 /\ s # NullStream
                   THEN stream_signal(s) ELSE 0,
     signal_consumed_ |-> IF Strategy # 0 /\ s # NullStream
                            THEN stream_signal(s) ELSE 0,
     pending_ |-> IF Strategy # 0 /\ s # NullStream
                    THEN stream_pending(s) ELSE 0,
     handle_ |-> IF Strategy = 2 /\ s # NullStream
                   THEN stream_handle(s) ELSE 0,
     counter |-> IF Strategy # 0 /\ s # NullStream
                   THEN [signal EXCEPT ![s] = stream_signal(s)] ELSE signal]

\* LIBXSTREAM_OFFLOAD_READY
LIBXSTREAM_OFFLOAD_READY(pending_) == 0 = pending_

\* mutant: no target clause carries a signal clause
HasSignal_Never(clause) == FALSE

\* whether the target clause of the body carries signal(signal_++)
HasSignal(clause) ==
    Strategy # 0 /\ clause \in {"TARGET_SIGNAL", "TARGET_WAIT"}

\* mutant: LIBXSTREAM_OFFLOAD_TARGET_WAIT without its wait clause
WaitTag_None(clause, pending_) == 0

\* the tag the body's offload waits for: wait(pending_) is part of
\* LIBXSTREAM_OFFLOAD_TARGET_WAIT under the asynchronous strategy only
WaitTag(clause, pending_) ==
    IF Strategy = 1 /\ clause = "TARGET_WAIT" THEN pending_ ELSE 0

\* the native stream the body's offload is queued in: stream(handle_) is
\* part of every target clause under the compiler-stream strategy
StreamClause(handle_) == IF Strategy = 2 THEN handle_ ELSE 0

\* mutant: the marker is stored whether or not a signal was consumed
LIBXSTREAM_OFFLOAD_END_Always(h) ==
    IF h.stream # NullStream
      THEN [pending EXCEPT ![h.stream] = h.signal_consumed_]
      ELSE pending

\* mutant: the advanced signal_ is stored instead of signal_consumed_
LIBXSTREAM_OFFLOAD_END_Advanced(h) ==
    IF h.stream # NullStream /\ h.signal_ # h.signal_consumed_
      THEN [pending EXCEPT ![h.stream] = h.signal_]
      ELSE pending

(***************************************************************************)
(* LIBXSTREAM_OFFLOAD_END: the stream's pending markers after the region   *)
(* has run with locals h.                                                  *)
(***************************************************************************)
LIBXSTREAM_OFFLOAD_END(h) ==
    IF h.stream # NullStream /\ h.signal_ # h.signal_consumed_
      THEN [pending EXCEPT ![h.stream] = h.signal_consumed_]
      ELSE pending

\* libxstream_offload(region, wait): with wait, the call returns only once
\* the region has completed
OffloadBlocks(h) == h.wait /\ regs[h.reg].state # "done"

IdleHost ==
    [pc |-> "idle", stream |-> NullStream, clause |-> "TARGET",
     wait |-> FALSE, device_ |-> DefaultDevice, signal_ |-> 0,
     signal_consumed_ |-> 0, pending_ |-> 0, handle_ |-> 0, reg |-> 0,
     blocking |-> FALSE]

InitOffload ==
    /\ LIBXSTREAM_ASYNC \in 0..2
    /\ signal = [s \in OStreams |-> 0]
    /\ pending = [s \in OStreams |-> 0]
    /\ regs = <<>>
    /\ host = IdleHost
    /\ nBegun = [s \in OStreams |-> 0]
    /\ confirmed = {}

RegIds == 1..Len(regs)
RegsOn(s) == {i \in RegIds : regs[i].stream = s}

(***************************************************************************)
(* LIBXSTREAM_OFFLOAD_BEGIN ... LIBXSTREAM_OFFLOAD_END(WAIT): a region is  *)
(* built for STREAM and handed to libxstream_offload, which runs it: the   *)
(* declarations, then the body, whose offload pragma carries one of the    *)
(* three target clauses.  sync: whether a pragma that has a stream clause  *)
(* but no signal clause blocks the host (either is possible).              *)
(***************************************************************************)
OffloadBegin(s, clause, w, sync) ==
    /\ host.pc = "idle"
    /\ Len(regs) < MaxRegions
    /\ LET d == LIBXSTREAM_OFFLOAD_DECL(s)
           blocking == IF HasSignal(clause) THEN FALSE
                       ELSE IF StreamClause(d.handle_) # 0 THEN sync
                       ELSE TRUE
       IN  /\ WaitTag(clause, 1) # 0 => ~LIBXSTREAM_OFFLOAD_READY(d.pending_)
           /\ sync = TRUE \/ (~HasSignal(clause) /\ StreamClause(d.handle_) # 0)
           /\ signal' = d.counter
           /\ regs' = Append(regs,
                 [stream |-> s, state |-> "queued", clause |-> clause,
                  wait |-> w,
                  tag |-> IF HasSignal(clause) THEN d.signal_ ELSE 0,
                  waitTag |-> WaitTag(clause, d.pending_),
                  handle |-> StreamClause(d.handle_),
                  entryPending |-> d.pending_])
           /\ host' = [pc |-> "body", stream |-> s, clause |-> clause,
                       wait |-> w, device_ |-> d.device_,
                       signal_ |-> IF HasSignal(clause)
                                     THEN d.signal_ + 1 ELSE d.signal_,
                       signal_consumed_ |-> d.signal_consumed_,
                       pending_ |-> d.pending_, handle_ |-> d.handle_,
                       reg |-> Len(regs) + 1,
                       blocking |-> blocking]
    /\ nBegun' = IF s # NullStream THEN [nBegun EXCEPT ![s] = @ + 1]
                 ELSE nBegun
    /\ UNCHANGED <<LIBXSTREAM_ASYNC, pending, confirmed, evVars, raceVars>>

\* the body is through (a pragma without signal or stream clause returns
\* when its offload has completed); LIBXSTREAM_OFFLOAD_END follows
OffloadEnd ==
    /\ host.pc = "body"
    /\ host.blocking => regs[host.reg].state = "done"
    /\ pending' = LIBXSTREAM_OFFLOAD_END(host)
    /\ host' = [host EXCEPT !.pc = "offload"]
    /\ UNCHANGED <<LIBXSTREAM_ASYNC, signal, regs, nBegun, confirmed, evVars, raceVars>>

\* libxstream_offload returns to the caller of the dispatch
OffloadReturn ==
    /\ host.pc = "offload"
    /\ ~OffloadBlocks(host)
    /\ host' = [host EXCEPT !.pc = "idle"]
    /\ confirmed' = IF host.wait THEN confirmed \cup {host.reg} ELSE confirmed
    /\ UNCHANGED <<LIBXSTREAM_ASYNC, signal, pending, regs, nBegun, evVars, raceVars>>

(***************************************************************************)
(* The device: an offload starts once the signal it waits for has been     *)
(* raised and, in a native stream, once the offloads queued before it in   *)
(* that stream have completed.                                             *)
(***************************************************************************)
MayStart(i) ==
    /\ regs[i].waitTag # 0 =>
          \E k \in RegsOn(regs[i].stream) :
              regs[k].tag = regs[i].waitTag /\ regs[k].state = "done"
    /\ regs[i].handle # 0 =>
          \A k \in 1..(i - 1) :
              regs[k].handle = regs[i].handle => regs[k].state = "done"

RegionStart(i) ==
    /\ regs[i].state = "queued"
    /\ MayStart(i)
    /\ regs' = [regs EXCEPT ![i].state = "running"]
    /\ UNCHANGED <<LIBXSTREAM_ASYNC, signal, pending, host, nBegun, confirmed,
                   evVars, raceVars>>

RegionFinish(i) ==
    /\ regs[i].state = "running"
    /\ regs' = [regs EXCEPT ![i].state = "done"]
    /\ UNCHANGED <<LIBXSTREAM_ASYNC, signal, pending, host, nBegun, confirmed,
                   evVars, raceVars>>

OffloadStep ==
    \/ \E s \in OStreams \cup {NullStream}, clause \in Clauses,
          w, sync \in BOOLEAN : OffloadBegin(s, clause, w, sync)
    \/ OffloadEnd
    \/ OffloadReturn
    \/ \E i \in RegIds : RegionStart(i)
    \/ \E i \in RegIds : RegionFinish(i)

Init == InitEvent /\ InitOffload /\ InitRace

NextEvent == EventStep

NextOffload == OffloadStep

NextLifecycle == LifecycleStep

NextRace == RaceStep

\* the OpenCL backend does not include libxstream_macros.h: the strategy is
\* left at its default while the event interface runs
InitOpenCL == Init /\ LIBXSTREAM_ASYNC = 0

SpecEvent == InitOpenCL /\ [][NextEvent]_vars

SpecOffload == Init /\ [][NextOffload]_vars

SpecLifecycle == InitOpenCL /\ [][NextLifecycle]_vars

SpecRace == InitOpenCL /\ [][NextRace]_vars

(***************************************************************************)
(*                   Properties of the event interface                     *)
(***************************************************************************)
\* the recorded point of e has been reached: every operation enqueued on the
\* recording stream before the latest record has completed
PointReached(e) == \A a \in recBefore[e] : Done(a)

\* the device event h exists and has completed
Complete(h) == h \in Handles /\ clStatus[h] = CL_COMPLETE

\* e is signaled: it has been recorded and the recorded point is reached
Signaled(e) == recCount[e] > 0 /\ PointReached(e)

\* C1 (as stated): once a stream has been made to wait on e and e has been
\* recorded (once) on another stream, no operation enqueued on the waiting
\* stream after the wait starts before every operation enqueued on the
\* recording stream before the record has completed.
C1_CrossStreamOrder ==
    \A b \in OpIds : \A e \in opWaits[b] :
        (recCount[e] = 1 /\ ops[b].state # "queued") =>
            \A a \in recBefore[e] :
                ops[a].stream # ops[b].stream => Done(a)

\* C2: after a record of e, a successful synchronize on e returns only when
\* every operation enqueued on the recording stream before the record has
\* completed, and the event stored in e's cell completes only then.
C2_RecordSynchronize ==
    \A e \in Events :
        /\ (ret.op = "synchronize" /\ ret.ev = e /\ ret.status = 0
               /\ recCount[e] > 0) => PointReached(e)
        /\ (recCount[e] > 0 /\ Complete(evHandle[e])) => PointReached(e)

\* C2, reached: synchronize returned 0 on a recorded event whose record had
\* operations before it
C2_Witness ==
    /\ ret.op = "synchronize" /\ ret.status = 0
    /\ recCount[ret.ev] > 0
    /\ recBefore[ret.ev] # {}

\* C3 (as stated): an event that was created successfully and has not been
\* recorded is unsignaled, and a successful query of it reports
\* occurred = false.
C3_FreshUnsignaled ==
    \A e \in Events :
        (evAlloc[e] /\ evHandle[e] # NULL /\ recCount[e] = 0) =>
            /\ clStatus[evHandle[e]] # CL_COMPLETE
            /\ (ret.op = "query" /\ ret.ev = e /\ ret.status = 0)
                  => ~ret.occurred

\* C4 (as stated): a successful query sets occurred, and occurred is true
\* exactly when the event is signaled at that moment.
C4_QueryReportsState ==
    (ret.op = "query" /\ ret.status = 0) =>
        /\ ret.set
        /\ ret.occurred <=> ret.complete

\* C5 (as stated): synchronize returns 0 only when the event is signaled; it
\* never returns 0 while the event is still unsignaled.
C5_SynchronizeNotEarly ==
    (ret.op = "synchronize" /\ ret.status = 0) => Signaled(ret.ev)

\* C11 (as stated): an event operation during which a backend call failed
\* returns a non-zero status; it returns 0 only if every backend call it
\* made succeeded.
C11_NoAbsorbedFailure ==
    (ret.op # "none" /\ ret.failed) => ret.status # 0

\* C12 (as stated): once an operation on a live event has returned a failure
\* status, a destroy of that event does not hand an invalid or released
\* cl_event to the backend, and when the backend accepts the release the
\* device event is released and the cell freed.
\* (failedOn includes a failure of this very destroy; a destroy that is the
\* first call to fail still has a valid event to release.)
C12_DestroySafeAfterFailure ==
    (ret.op = "destroy" /\ ret.live /\ failedOn[ret.ev]) =>
        /\ ret.valid
        /\ ~ret.failed =>
              /\ evFreed[ret.ev]
              /\ evHandle[ret.ev] \in clReleased

\* C13 (as stated): every operation called on an event after its successful
\* destroy returns a failure status.
C13_UseAfterDestroyReported ==
    (ret.op # "none" /\ ~ret.live) => ret.status # 0

\* C14 (as stated): success yields 0, a rejected backend call on a live
\* event yields exactly -1, and a precondition violation (here: the use of
\* a destroyed event) yields a negative status other than -1.
C14_ConditionErrorDistinct ==
    ret.op # "none" =>
        /\ (ret.live /\ ~ret.failed) => ret.status = LIBXSTREAM_ERROR_NONE
        /\ (ret.live /\ ret.failed /\ ret.status # 0)
              => ret.status = LIBXSTREAM_ERROR_RUNTIME
        /\ ~ret.live => (ret.status < 0
                          /\ ret.status # LIBXSTREAM_ERROR_RUNTIME)

\* the device events created on behalf of e: by its create and its records
\* (every device event of the model belongs to the one event there is)
HandlesOf(e) == Handles

\* C15 (as stated): when the destroy of a live event, on which no call has
\* failed, returns 0, every device event created on its behalf has been
\* released and the cell has been freed.
C15_NoLeakedHandles ==
    (ret.op = "destroy" /\ ret.status = 0 /\ ret.live
                        /\ ~failedOn[ret.ev]) =>
        /\ HandlesOf(ret.ev) \subseteq clReleased
        /\ evFreed[ret.ev] /\ ~evAlloc[ret.ev]

(***************************************************************************)
(*                   Properties of the offload regions                     *)
(***************************************************************************)
RegDone(i) == regs[i].state = "done"

FollowsReadyIdiom(s) ==
    \A k \in RegsOn(s) :
        regs[k].clause = IF LIBXSTREAM_OFFLOAD_READY(regs[k].entryPending)
                           THEN "TARGET_SIGNAL" ELSE "TARGET_WAIT"

C7_CounterCountsRegions ==
    \A s \in OStreams : signal[s] = nBegun[s]

\* C7 (amended): under the asynchronous and the compiler-stream strategy
\* every region dispatched on a non-null stream advances the stream's signal
\* counter by exactly one, whatever its body; under the synchronous strategy
\* the counter is never touched.
C7_CounterPerStrategy ==
    \A s \in OStreams :
        signal[s] = IF Strategy = 0 THEN 0 ELSE nBegun[s]

\* C7, reached: two regions on one stream, one without and one with a signal
\* clause, under a strategy that uses signals
C7_Witness ==
    /\ Strategy # 0
    /\ \E s \in OStreams : \E i, j \in RegsOn(s) :
          /\ regs[i].clause = "TARGET"
          /\ regs[j].clause # "TARGET"
          /\ signal[s] >= 2

\* C8: the pending marker of a stream is 0 or at most the stream's signal
\* counter, and the signal counter never decreases.
C8_PendingBelowSignal ==
    /\ [](\A s \in OStreams : pending[s] = 0 \/ pending[s] <= signal[s])
    /\ [][\A s \in OStreams : signal'[s] >= signal[s]]_vars

\* C8, reached: a second signal-consuming region has stored its marker
C8_Witness ==
    \E s \in OStreams : pending[s] >= 2 /\ pending[s] <= signal[s]

\* the signal-consuming regions of s no blocking dispatch has waited for
Unconfirmed(s) ==
    {i \in RegsOn(s) : regs[i].tag # 0 /\ i \notin confirmed}

\* C9 (as stated): under the asynchronous strategy, between dispatches the
\* pending marker of a stream is 0 exactly when none of its asynchronously
\* enqueued regions remains unconfirmed; and after three signal-consuming
\* regions dispatched with wait = false on a fresh stream the counter is 3
\* and the marker is not 0.
C9_PendingIffOutstanding ==
    (Strategy = 1 /\ host.pc = "idle") =>
        \A s \in OStreams :
            /\ (pending[s] = 0) <=> (Unconfirmed(s) = {})
            /\ (nBegun[s] = 3 /\ \A i \in RegsOn(s) :
                                     regs[i].tag # 0 /\ ~regs[i].wait)
                  => (signal[s] = 3 /\ pending[s] # 0)

\* C10 (as stated): when a dispatch with wait = true on a non-null stream
\* has returned, the region and everything dispatched on the stream before
\* it has completed and the stream's pending marker is 0.
C10_WaitClearsPending ==
    (host.pc = "idle" /\ host.reg # 0 /\ host.wait
                      /\ host.stream # NullStream) =>
        /\ \A i \in RegsOn(host.stream) : i <= host.reg => RegDone(i)
        /\ pending[host.stream] = 0

\* the event operations other than synchronize return whatever the device
\* has done so far: each can be called on a live event in every state
\* (while the model's command budget lasts)
EventCallsReturn ==
    \A e \in LiveEvents :
        /\ ENABLED (\E ok1, ok2 \in BOOLEAN, pv \in MallocResults :
                        acc_event_query(e, ok1, pv, ok2))
        /\ nCmds < MaxCmds =>
              \A s \in Streams :
                  /\ ENABLED acc_event_record(e, s, TRUE)
                  /\ ENABLED (\E ok \in BOOLEAN :
                                  acc_stream_wait_event(s, e, ok))

\* the host is inside a dispatch with wait = false
InNoWaitDispatch == host.pc \in {"body", "offload"} /\ ~host.wait

\* the next step of the dispatching host is possible now
HostCanProceed ==
    /\ host.pc = "body" => ENABLED OffloadEnd
    /\ host.pc = "offload" => ENABLED OffloadReturn

C18_SyncResolvesZero ==
    Strategy = 0 =>
        /\ host.pc # "idle" =>
              /\ host.device_ = 0
              /\ host.signal_ = 0 /\ host.signal_consumed_ = 0
              /\ host.pending_ = 0
              /\ LIBXSTREAM_OFFLOAD_READY(host.pending_)
        /\ \A s \in OStreams : signal[s] = 0 /\ pending[s] = 0

\* C18 (amended): under the synchronous strategy every dispatch resolves
\* signal and pending to 0 for every stream argument, the ready test is
\* always true, and the counters and markers of the streams stay as they
\* were; the device is still taken from the stream, the default device
\* being used for a null stream only.
C18_SyncKeepsDevice ==
    Strategy = 0 =>
        /\ host.pc # "idle" =>
              /\ host.device_ = IF host.stream = NullStream THEN DefaultDevice
                                ELSE stream_device(host.stream)
              /\ host.signal_ = 0 /\ host.signal_consumed_ = 0
              /\ host.pending_ = 0
              /\ LIBXSTREAM_OFFLOAD_READY(host.pending_)
        /\ \A s \in OStreams : signal[s] = 0 /\ pending[s] = 0

\* C18, reached: under the synchronous strategy the third region, on a
\* non-null stream and with a TARGET_WAIT body, has finished
C18_Witness ==
    /\ Strategy = 0
    /\ host.pc = "offload"
    /\ host.stream # NullStream
    /\ host.clause = "TARGET_WAIT"
    /\ host.reg = 3
    /\ \E i \in RegsOn(host.stream) : i < host.reg

\* C19: under every strategy a region dispatched with a null stream resolves
\* the device to the default device and signal, pending and native handle to
\* 0, and no step of that dispatch changes the signal counter or the pending
\* marker of any stream.
C19_NullStreamDefaults ==
    /\ []((host.pc # "idle" /\ host.stream = NullStream) =>
             /\ host.device_ = DefaultDevice
             /\ host.signal_consumed_ = 0
             /\ host.pending_ = 0
             /\ host.handle_ = 0)
    /\ [][(host'.pc # "idle" /\ host'.stream = NullStream) =>
             (signal' = signal /\ pending' = pending)]_vars

\* C19, reached: a null-stream region with a signalling body has finished
\* under the compiler-stream strategy while a stream has outstanding work
C19_Witness ==
    /\ host.pc = "offload"
    /\ host.stream = NullStream
    /\ host.clause = "TARGET_SIGNAL"
    /\ Strategy = 2
    /\ \E s \in OStreams : signal[s] >= 1 /\ pending[s] >= 1

(***************************************************************************)
(*                   Properties of concurrent event calls                  *)
(***************************************************************************)
\* C20 (as stated): with two threads inside event calls at the same time,
\* the status a call returns reflects its own backend calls only: it is 0
\* exactly when none of them failed.
C20_StatusIsOwn ==
    \A t \in Threads :
        thr[t].pc = "returned" =>
            /\ thr[t].failed => thr[t].status # 0
            /\ ~thr[t].failed => thr[t].status = 0

====
